---- MODULE Spec2Model ----
(***************************************************************************)
(* Authentication and session lifecycle of the Notion-server backend:      *)
(* JwtStrategy (src/unnamed/part_000), AuthController and GoogleStrategy   *)
(* (src/src/aws/aws-s3.service.ts).  AuthService, UsersService and         *)
(* TokenBlacklistService are not part of the sources; their operations are *)
(* modelled from the specification (sections 4.1, 4.2 and 4.4).            *)
(*                                                                         *)
(* Strings are sequences of chunks: a chunk is a scheme word, one blank or *)
(* one opaque token.  Absent values (undefined) and the empty string are   *)
(* both the empty sequence; both are falsy in the code.                    *)
(***************************************************************************)
EXTENDS Integers, Sequences, FiniteSets, TLC

\* ---------------------------------------------------------------- bounds
MaxTicks == 2
MaxPairs == 3
MaxLogins == 1
MaxChallenges == 1
NSlots == 2
MaxIdentities == 3
MaxProjects == 1

\* ------------------------------------------------------- configuration
TickMs == 500
MsPerSec == 1000
AccessTtlSec == 900
RefreshTtlSec == 2592000
LockoutThreshold == 3
LockoutWindowMs == 1000
ChallengeTtlMs == 1000

User == "u"
Other == "w"
Nobody == "nobody"
Slots == 1..NSlots

AccessNames == <<"a1", "a2", "a3", "a4">>
RefreshNames == <<"r1", "r2", "r3", "r4">>
Forged == "forged"
None == <<>>
\* a Date field that is not set
Null == 0 - 1

\* ---------------------------------------------------------- variables
VARIABLES now, user, pairs, challenges, blacklist, revokedFamilies, slot, hist,
          identities, oauth, projects, teams, preq

\* the projects, their teams, and the reply to the last project request
projVars == <<projects, teams, preq>>

\* the Credential Store's identities and the Google logins under way, and the
\* project side
ext == <<identities, oauth, projVars>>

vars == <<now, user, pairs, challenges, blacklist, revokedFamilies, slot, hist, ext>>

\* the session side of the state
authVars == <<now, user, pairs, challenges, blacklist, revokedFamilies, slot, hist>>

\* ------------------------------------------------------ string helpers
AccessTok(p) == <<AccessNames[p]>>
RefreshTok(p) == <<RefreshNames[p]>>

\* index of the first occurrence of pat in s, 0 when there is none
IndexOf(s, pat) ==
  LET hits == {i \in 1..(Len(s) - Len(pat) + 1) : SubSeq(s, i, i + Len(pat) - 1) = pat}
  IN IF hits = {} THEN 0 ELSE CHOOSE i \in hits : \A j \in hits : i <= j

\* String.prototype.replace with a string pattern: the first occurrence only
Replace(s, pat, rep) ==
  LET i == IndexOf(s, pat)
  IN IF i = 0 THEN s
     ELSE SubSeq(s, 1, i - 1) \o rep \o SubSeq(s, i + Len(pat), Len(s))

ToLowerCase(c) == IF c \in {"Bearer", "BEARER", "bearer"} THEN "bearer" ELSE c

\* end of the run of non-blank chunks that starts at i
RunEnd(s, i) ==
  CHOOSE e \in i..Len(s) :
     /\ \A k \in i..e : s[k] # " "
     /\ (e = Len(s) \/ s[e + 1] = " ")

\* ExtractJwt.fromAuthHeaderAsBearerToken: the header is matched against
\* /(\S+)\s+(\S+)/ and the scheme compared case-insensitively with "bearer"
FromAuthHeaderAsBearerToken(h) ==
  LET starts == {i \in 1..Len(h) : h[i] # " "}
  IN IF starts = {} THEN None
     ELSE LET i1 == CHOOSE i \in starts : \A j \in starts : i <= j
              e1 == RunEnd(h, i1)
              rest == {j \in (e1 + 1)..Len(h) : h[j] # " "}
          IN IF rest = {} THEN None
             ELSE LET j1 == CHOOSE j \in rest : \A k \in rest : j <= k
                  IN IF e1 = i1 /\ ToLowerCase(h[i1]) = "bearer"
                        THEN SubSeq(h, j1, RunEnd(h, j1))
                        ELSE None

\* jwtFromRequest: the accessToken cookie first, the bearer header otherwise
JwtFromRequest(cookieAccess, auth) ==
  IF cookieAccess # None THEN cookieAccess ELSE FromAuthHeaderAsBearerToken(auth)

\* the token string JwtStrategy.validate looks up in the blacklist
ValidateToken(cookieAccess, auth) ==
  IF cookieAccess # None THEN cookieAccess
  ELSE Replace(auth, <<"Bearer", " ">>, <<>>)

\* ------------------------------------------------------- token helpers
AccessIndex(str) ==
  LET hits == {p \in 1..Len(pairs) : AccessTok(p) = str}
  IN IF hits = {} THEN 0 ELSE CHOOSE p \in hits : TRUE

RefreshIndex(str) ==
  LET hits == {p \in 1..Len(pairs) : RefreshTok(p) = str}
  IN IF hits = {} THEN 0 ELSE CHOOSE p \in hits : TRUE

NowSec == now \div MsPerSec

\* the iat claim of the tokens of pair p: the issue instant in whole seconds
Iat(p) == pairs[p].at \div MsPerSec

\* signature and expiry verification of the extracted token by passport-jwt
JwtVerify(str) ==
  LET p == AccessIndex(str)
  IN p # 0 /\ NowSec < Iat(p) + AccessTtlSec

\* TokenBlacklistService.isTokenBlacklisted
IsTokenBlacklisted(str) == str \in blacklist

\* request.user before the guard has attached a principal
NoPrincipal == [sub |-> "", email |-> "", provider |-> "", iat |-> Null]

\* req.user before the Google strategy has run
NoProfile == [provider |-> "", id |-> "", email |-> ""]

\* a request slot: the request while it is handled, the reply once it is done
IdleSlot ==
  [op |-> "idle", pc |-> "idle", cookieAccess |-> None, auth |-> None,
   cookieRefresh |-> None, afterLogout |-> FALSE, repeated |-> FALSE,
   resp |-> "", setAccess |-> None, setRefresh |-> None, temp |-> 0,
   principal |-> NoPrincipal]

Reply(op, resp) == [IdleSlot EXCEPT !.op = op, !.pc = "done", !.resp = resp]

\* the reply to a guarded request; a logout reply stays with its request
ReplyTo(op, c, a, r, resp) ==
  IF op = "logout"
     THEN [Reply(op, resp) EXCEPT !.cookieAccess = c, !.auth = a, !.cookieRefresh = r]
     ELSE Reply(op, resp)

\* no project document
NoProject == [exists |-> FALSE, createdBy |-> "", members |-> <<>>, teamId |-> 0]

\* before the first project request
NoReply == [op |-> "", result |-> "", project |-> NoProject]

\* a Google login slot: the profile in req.user, the identity the strategy's
\* call came to, the identity the tokens are for
IdleOAuth == [pc |-> "idle", user |-> NoProfile, first |-> 0, sub |-> 0, cookies |-> FALSE]

Init ==
  /\ now = 0
  /\ user \in {[exists |-> TRUE, twoFA |-> f, failed |-> 0, lockoutUntil |-> Null,
                lastPasswordChange |-> Null] : f \in BOOLEAN}
  /\ pairs = <<>>
  /\ challenges = <<>>
  /\ blacklist = {}
  /\ revokedFamilies = {}
  /\ slot = [s \in Slots |-> IdleSlot]
  /\ hist = [streak |-> 0, lockedAt |-> 0]
  /\ identities = <<[email |-> User, provider |-> "", subject |-> ""]>>
  /\ oauth = [o \in Slots |-> IdleOAuth]
  /\ projects = <<>>
  /\ teams = {}
  /\ preq = NoReply


\* ------------------------------------------------- requests (inputs)
MintedAccess == {AccessNames[p] : p \in 1..Len(pairs)}

\* the ways a client carries access token t: cookie, or bearer header spellings
Carriers(t) ==
  { [cookieAccess |-> <<t>>, auth |-> None],
    [cookieAccess |-> None, auth |-> <<"Bearer", " ", t>>],
    [cookieAccess |-> None, auth |-> <<"bearer", " ", t>>] }

Free(s) == slot[s].pc \in {"idle", "done"}

\* ------------------------------------------- JwtAuthGuard / JwtStrategy
\* the token the extractor verified, and the payload it decoded
Jwt(s) == JwtFromRequest(slot[s].cookieAccess, slot[s].auth)
Payload(s) ==
  [sub |-> pairs[AccessIndex(Jwt(s))].sub, email |-> pairs[AccessIndex(Jwt(s))].sub,
   provider |-> "local", iat |-> Iat(AccessIndex(Jwt(s)))]

\* a logout has returned successfully and its reply is still at hand
LoggedOut(o) == slot[o].op = "logout" /\ slot[o].pc = "done" /\ slot[o].resp = "ok"

\* a logout authenticated with this token has returned
AfterLogout(jwt) == \E o \in Slots : LoggedOut(o) /\ Jwt(o) = jwt

\* a logout carrying the same tokens has returned
Repeated(c, a, r) ==
  \E o \in Slots : /\ LoggedOut(o)
                   /\ slot[o].cookieAccess = c /\ slot[o].auth = a
                   /\ slot[o].cookieRefresh = r

\* passport-jwt: extract the token, verify it, hand the payload to validate
StartGuarded(s, op, c, a, r) ==
  /\ Free(s)
  /\ LET jwt == JwtFromRequest(c, a)
     IN slot' = [slot EXCEPT ![s] =
          IF jwt # None /\ JwtVerify(jwt)
             THEN [IdleSlot EXCEPT !.op = op, !.pc = "blacklist", !.cookieAccess = c,
                                   !.auth = a, !.cookieRefresh = r,
                                   !.afterLogout = AfterLogout(jwt),
                                   !.repeated = (op = "logout" /\ Repeated(c, a, r))]
             ELSE ReplyTo(op, c, a, r, "Unauthorized")]
  /\ UNCHANGED <<now, user, pairs, challenges, blacklist, revokedFamilies, hist, ext>>

\* GET /auth/status
StartStatus(s) ==
  \E t \in MintedAccess \cup {Forged} : \E k \in Carriers(t) :
     StartGuarded(s, "status", k.cookieAccess, k.auth, None)

\* POST /auth/logout: a browser sends both cookies, an API client the header
StartLogout(s) ==
  \E p \in 1..Len(pairs) : \E k \in Carriers(AccessNames[p]) :
     StartGuarded(s, "logout", k.cookieAccess, k.auth,
                  IF k.cookieAccess # None THEN RefreshTok(p) ELSE None)

\* JwtStrategy.validate, the blacklist check
ValidateBlacklist(s) ==
  /\ slot[s].pc = "blacklist"
  /\ LET token == ValidateToken(slot[s].cookieAccess, slot[s].auth)
     IN slot' = [slot EXCEPT ![s] =
          IF token # None /\ IsTokenBlacklisted(token)
             THEN ReplyTo(@.op, @.cookieAccess, @.auth, @.cookieRefresh, "TokenRevoked")
             ELSE [@ EXCEPT !.pc = "user"]]
  /\ UNCHANGED <<now, user, pairs, challenges, blacklist, revokedFamilies, hist, ext>>

\* faulty variant of UserChecks: the issued-at is compared with the
\* last-password-change instant in milliseconds
UserChecksInMs(iat) ==
  IF ~user.exists THEN "IdentityNotFound"
  ELSE IF user.lastPasswordChange # Null
          /\ iat * MsPerSec < user.lastPasswordChange THEN "StaleCredentials"
  ELSE IF user.lockoutUntil # Null /\ user.lockoutUntil > now THEN "AccountLocked"
  ELSE "Principal"

\* JwtStrategy.validate after the blacklist check: the rejection reason, or
\* "Principal"
UserChecks(iat) ==
  IF ~user.exists THEN "IdentityNotFound"
  ELSE IF user.lastPasswordChange # Null
          /\ iat < user.lastPasswordChange \div MsPerSec THEN "StaleCredentials"
  ELSE IF user.lockoutUntil # Null /\ user.lockoutUntil > now THEN "AccountLocked"
  ELSE "Principal"

\* a principal whose issued-at is read from the clock, not from the token
RequestUserIatNow(payload) ==
  [sub |-> payload.sub, email |-> payload.email, provider |-> payload.provider,
   iat |-> NowSec]

\* the user data validate returns, attached to request.user
RequestUser(payload) ==
  [sub |-> payload.sub, email |-> payload.email, provider |-> payload.provider,
   iat |-> payload.iat]

ValidateUser(s) ==
  /\ slot[s].pc = "user"
  /\ LET res == UserChecks(Payload(s).iat)
         principal == RequestUser(Payload(s))
     IN slot' = [slot EXCEPT ![s] =
          IF res # "Principal"
             THEN ReplyTo(@.op, @.cookieAccess, @.auth, @.cookieRefresh, res)
          ELSE IF @.op = "logout"
             THEN [@ EXCEPT !.pc = "logout", !.principal = principal]
          ELSE [Reply(@.op, "Principal") EXCEPT !.principal = principal]]
  /\ UNCHANGED <<now, user, pairs, challenges, blacklist, revokedFamilies, hist, ext>>

\* ------------------------------------------------------ AuthController
\* AuthService.logout: both tokens' identifiers go to the Revocation Registry
AuthLogout(accessToken, refreshToken) ==
  blacklist \cup ({accessToken, refreshToken} \ {None})

\* POST /auth/logout, the handler behind the guard
Logout(s) ==
  /\ slot[s].pc = "logout"
  /\ LET accessToken == slot[s].cookieAccess
         refreshToken == slot[s].cookieRefresh
     IN /\ blacklist' = IF accessToken # None \/ refreshToken # None
                           THEN AuthLogout(accessToken, refreshToken)
                           ELSE blacklist
        /\ slot' = [slot EXCEPT ![s] =
              ReplyTo("logout", accessToken, slot[s].auth, refreshToken, "ok")]
  /\ UNCHANGED <<now, user, pairs, challenges, revokedFamilies, hist, ext>>

\* ----------------------------------------------- AuthService (login side)
Locked == user.lockoutUntil # Null /\ user.lockoutUntil > now

\* once the lockout instant has passed the counter restarts at the next attempt
AfterWindow(u) ==
  IF u.lockoutUntil # Null /\ ~(u.lockoutUntil > now)
     THEN [u EXCEPT !.failed = 0, !.lockoutUntil = Null]
     ELSE u

\* a failed attempt: the counter goes up and the threshold sets lockout-until
RecordFailure(u) ==
  LET n == u.failed + 1
  IN [u EXCEPT !.failed = n,
               !.lockoutUntil = IF n >= LockoutThreshold
                                   THEN now + LockoutWindowMs ELSE @]

ResetCounter(u) == [u EXCEPT !.failed = 0, !.lockoutUntil = Null]

\* TokenIssuer.issue: a new pair; fam = 0 starts a new token family
Issue(fam, via) ==
  Append(pairs, [sub |-> User, at |-> now,
                 fam |-> IF fam = 0 THEN Len(pairs) + 1 ELSE fam,
                 via |-> via, rotated |-> FALSE])

\* TokenIssuer.issueChallenge
IssueChallenge == Append(challenges, [sub |-> User, exp |-> now + ChallengeTtlMs])

\* faulty variant of LoginOutcome: the password is compared before the lockout
\* is looked at, so the correct password gets through a locked account
LoginOutcomeLockAfterPassword(email, password) ==
  IF email # User \/ ~user.exists THEN "InvalidCredentials"
  ELSE IF password = "good" THEN (IF user.twoFA THEN "requires2FA" ELSE "tokens")
  ELSE IF Locked THEN "AccountLocked"
  ELSE "Mismatch"

\* AuthService.login: what the attempt comes to
LoginOutcome(email, password) ==
  IF email # User \/ ~user.exists THEN "InvalidCredentials"
  ELSE IF Locked THEN "AccountLocked"
  ELSE IF password # "good" THEN "Mismatch"
  ELSE IF user.twoFA THEN "requires2FA"
  ELSE "tokens"

\* AuthService.verify2FA: what the attempt comes to
Verify2FAOutcome(email, code) ==
  IF email # User \/ ~user.exists THEN "InvalidTwoFactorCode"
  ELSE IF Locked THEN "AccountLocked"
  ELSE IF ~user.twoFA \/ code # "good" THEN "Mismatch"
  ELSE "tokens"

\* history of failed attempts as a caller observes them
HistFail(h) ==
  IF h.streak >= LockoutThreshold /\ now < h.lockedAt + LockoutWindowMs THEN h
  ELSE LET n == IF h.streak >= LockoutThreshold THEN 1 ELSE h.streak + 1
       IN [h EXCEPT !.streak = n,
                    !.lockedAt = IF n >= LockoutThreshold THEN now ELSE @]

HistOf(outcome) ==
  CASE outcome = "Mismatch" -> HistFail(hist)
    [] outcome = "tokens" -> [hist EXCEPT !.streak = 0]
    [] OTHER -> hist

\* faulty variant of LoginReply: the requires2FA branch is missing
LoginReplyNo2FABranch(result) ==
  IF result.accessToken # None
     THEN [resp |-> "ok", temp |-> 0,
           setAccess |-> result.accessToken, setRefresh |-> result.refreshToken]
  ELSE [resp |-> "ok", temp |-> 0, setAccess |-> None, setRefresh |-> None]

\* AuthController.login: the reply built from the service's result
LoginReply(result) ==
  IF result.requires2FA
     THEN [resp |-> "requires2FA", temp |-> result.tempToken,
           setAccess |-> None, setRefresh |-> None]
  ELSE IF result.accessToken # None
     THEN [resp |-> "ok", temp |-> 0,
           setAccess |-> result.accessToken, setRefresh |-> result.refreshToken]
  ELSE [resp |-> "ok", temp |-> 0, setAccess |-> None, setRefresh |-> None]

Thrown(name) == [resp |-> name, temp |-> 0, setAccess |-> None, setRefresh |-> None]

Finish(s, op, reply) ==
  slot' = [slot EXCEPT ![s] =
     [Reply(op, reply.resp) EXCEPT !.temp = reply.temp, !.setAccess = reply.setAccess,
                                   !.setRefresh = reply.setRefresh]]

\* the token pairs handed out by password logins so far
Logins == Cardinality({p \in 1..Len(pairs) : pairs[p].via = "login"})

\* POST /auth/login
Login(s, email, password) ==
  /\ Free(s)
  /\ LET o == LoginOutcome(email, password)
     IN /\ o = "requires2FA" => Len(challenges) < MaxChallenges
        /\ o = "tokens" => Len(pairs) < MaxPairs /\ Logins < MaxLogins
        /\ user' = CASE o = "Mismatch" -> RecordFailure(AfterWindow(user))
                     [] o = "requires2FA" -> AfterWindow(user)
                     [] o = "tokens" -> ResetCounter(user)
                     [] OTHER -> user
        /\ challenges' = IF o = "requires2FA" THEN IssueChallenge ELSE challenges
        /\ pairs' = IF o = "tokens" THEN Issue(0, "login") ELSE pairs
        /\ hist' = HistOf(o)
        /\ Finish(s, "login",
             CASE o = "requires2FA" ->
                    LoginReply([requires2FA |-> TRUE, tempToken |-> Len(challenges'),
                                accessToken |-> None, refreshToken |-> None])
               [] o = "tokens" ->
                    LoginReply([requires2FA |-> FALSE, tempToken |-> 0,
                                accessToken |-> AccessTok(Len(pairs')),
                                refreshToken |-> RefreshTok(Len(pairs'))])
               [] o = "Mismatch" -> Thrown("InvalidCredentials")
               [] OTHER -> Thrown(o))
  /\ UNCHANGED <<now, blacklist, revokedFamilies, ext>>

\* POST /auth/verify-2fa: the body carries the email and the one-time code
Verify2FA(s, email, code) ==
  /\ Free(s)
  /\ LET o == Verify2FAOutcome(email, code)
     IN /\ o = "tokens" => Len(pairs) < MaxPairs
        /\ user' = CASE o = "Mismatch" -> RecordFailure(AfterWindow(user))
                     [] o = "tokens" -> ResetCounter(user)
                     [] OTHER -> user
        /\ pairs' = IF o = "tokens" THEN Issue(0, "2fa") ELSE pairs
        /\ hist' = HistOf(o)
        /\ Finish(s, "verify2fa",
             CASE o = "tokens" ->
                    [resp |-> "ok", temp |-> 0, setAccess |-> AccessTok(Len(pairs')),
                     setRefresh |-> RefreshTok(Len(pairs'))]
               [] o = "Mismatch" -> Thrown("InvalidTwoFactorCode")
               [] OTHER -> Thrown(o))
  /\ UNCHANGED <<now, challenges, blacklist, revokedFamilies, ext>>

\* --------------------------------------------- AuthService (token side)
FamilyTokens(f) ==
  UNION {{AccessTok(q), RefreshTok(q)} : q \in {x \in 1..Len(pairs) : pairs[x].fam = f}}

\* faulty variant of RotateOutcome: a rotated refresh token is not recognised
RotateOutcomeNoReplayCheck(refreshToken) ==
  LET p == RefreshIndex(refreshToken)
  IN IF p = 0 THEN "InvalidOrExpiredToken"
     ELSE IF refreshToken \in blacklist \/ pairs[p].fam \in revokedFamilies
             \/ ~(NowSec < Iat(p) + RefreshTtlSec)
        THEN "InvalidOrExpiredToken"
     ELSE "tokens"

\* AuthService.refreshAccessToken -> TokenIssuer.rotate: what the call comes to
RotateOutcome(refreshToken) ==
  LET p == RefreshIndex(refreshToken)
  IN IF p = 0 THEN "InvalidOrExpiredToken"
     ELSE IF pairs[p].rotated THEN "TokenReplayDetected"
     ELSE IF refreshToken \in blacklist \/ pairs[p].fam \in revokedFamilies
             \/ ~(NowSec < Iat(p) + RefreshTtlSec)
        THEN "InvalidOrExpiredToken"
     ELSE "tokens"

\* POST /auth/refresh, up to the call of the service
StartRefresh(s) ==
  /\ Free(s)
  /\ \E r \in {None, <<Forged>>} \cup {RefreshTok(p) : p \in 1..Len(pairs)} :
        slot' = [slot EXCEPT ![s] =
           IF r = None
              THEN Reply("refresh", "BadRequest")
              ELSE [IdleSlot EXCEPT !.op = "refresh", !.pc = "rotate",
                                    !.cookieRefresh = r]]
  /\ UNCHANGED <<now, user, pairs, challenges, blacklist, revokedFamilies, hist, ext>>

\* POST /auth/refresh, the service call and the reply: only the accessToken
\* cookie is set
Refresh(s) ==
  /\ slot[s].pc = "rotate"
  /\ LET r == slot[s].cookieRefresh
         o == RotateOutcome(r)
         p == RefreshIndex(r)
     IN /\ o = "tokens" => Len(pairs) < MaxPairs
        /\ pairs' = IF o = "tokens"
                       THEN LET marked == [pairs EXCEPT ![p].rotated = TRUE]
                            IN Append(marked, [sub |-> pairs[p].sub, at |-> now,
                                               fam |-> pairs[p].fam, via |-> "refresh",
                                               rotated |-> FALSE])
                       ELSE pairs
        /\ blacklist' = IF o = "TokenReplayDetected"
                           THEN blacklist \cup FamilyTokens(pairs[p].fam)
                           ELSE blacklist
        /\ revokedFamilies' = IF o = "TokenReplayDetected"
                                 THEN revokedFamilies \cup {pairs[p].fam}
                                 ELSE revokedFamilies
        /\ slot' = [slot EXCEPT ![s] =
              [Reply("refresh", IF o = "tokens" THEN "ok" ELSE o) EXCEPT
                  !.cookieRefresh = r,
                  !.setAccess = IF o = "tokens" THEN AccessTok(Len(pairs')) ELSE None]]
  /\ UNCHANGED <<now, user, challenges, hist, ext>>

\* ------------------------------------------------- Credential Store
\* a password change bumps last-password-change
ChangePassword ==
  /\ user.exists
  /\ user' = [user EXCEPT !.lastPasswordChange = now]
  /\ UNCHANGED <<now, pairs, challenges, blacklist, revokedFamilies, slot, hist, ext>>

\* the account is removed by another subsystem
DeleteUser ==
  /\ user.exists
  /\ user' = [user EXCEPT !.exists = FALSE]
  /\ UNCHANGED <<now, pairs, challenges, blacklist, revokedFamilies, slot, hist, ext>>

Tick ==
  /\ now + TickMs <= MaxTicks * TickMs
  /\ now' = now + TickMs
  /\ UNCHANGED <<user, pairs, challenges, blacklist, revokedFamilies, slot, hist, ext>>

\* ------------------------------------------------------- Google login
\* the profiles Google hands over: two subjects, the email of the local
\* identity in two spellings and one other email
Profiles ==
  {[provider |-> "google", id |-> g, email |-> e] :
      g \in {"g1", "g2"}, e \in {"u", "U", "v"}}

\* emails are stored and compared case-normalized
NormalizeEmail(e) == IF e = "U" THEN "u" ELSE e

FindByOAuth(ids, provider, subject) ==
  LET hits == {i \in 1..Len(ids) : ids[i].provider = provider /\ ids[i].subject = subject}
  IN IF hits = {} THEN 0 ELSE CHOOSE i \in hits : \A j \in hits : i <= j

FindByEmail(ids, email) ==
  LET hits == {i \in 1..Len(ids) : ids[i].email = NormalizeEmail(email)}
  IN IF hits = {} THEN 0 ELSE CHOOSE i \in hits : \A j \in hits : i <= j

\* faulty variant of ValidateOAuthLogin: an unknown (provider, subject) always
\* gets a new identity, whether or not its email is already known
ValidateOAuthLoginNoLink(ids, profile) ==
  LET k == FindByOAuth(ids, profile.provider, profile.id)
  IN IF k # 0 THEN [identities |-> ids, id |-> k]
     ELSE [identities |-> Append(ids, [email |-> NormalizeEmail(profile.email),
                                       provider |-> profile.provider,
                                       subject |-> profile.id]),
           id |-> Len(ids) + 1]

\* AuthService.validateOAuthLogin: the identity of (provider, subject), else
\* the identity with the profile's email, linked to it, else a new identity
ValidateOAuthLogin(ids, profile) ==
  LET k == FindByOAuth(ids, profile.provider, profile.id)
      e == FindByEmail(ids, profile.email)
  IN IF k # 0 THEN [identities |-> ids, id |-> k]
     ELSE IF e # 0
        THEN [identities |-> [ids EXCEPT ![e].provider = profile.provider,
                                         ![e].subject = profile.id],
              id |-> e]
     ELSE [identities |-> Append(ids, [email |-> NormalizeEmail(profile.email),
                                       provider |-> profile.provider,
                                       subject |-> profile.id]),
           id |-> Len(ids) + 1]

\* GoogleStrategy.validate: make sure the user exists, pass the raw profile on
GoogleValidate(o, profile) ==
  /\ oauth[o].pc \in {"idle", "done"}
  /\ LET r == ValidateOAuthLogin(identities, profile)
     IN /\ Len(r.identities) <= MaxIdentities
        /\ identities' = r.identities
        /\ oauth' = [oauth EXCEPT ![o] = [IdleOAuth EXCEPT !.pc = "redirect",
                                                           !.user = profile,
                                                           !.first = r.id]]
  /\ UNCHANGED <<authVars, projVars>>

\* GET /auth/google/redirect: the second call, then the cookies; the token
\* pair of the reply is the one issued for identity sub
GoogleAuthRedirect(o) ==
  /\ oauth[o].pc = "redirect"
  /\ LET r == ValidateOAuthLogin(identities, oauth[o].user)
     IN /\ Len(r.identities) <= MaxIdentities
        /\ identities' = r.identities
        /\ oauth' = [oauth EXCEPT ![o] = [@ EXCEPT !.pc = "done", !.sub = r.id,
                                                   !.cookies = TRUE]]
  /\ UNCHANGED <<authVars, projVars>>

\* ------------------------------------------------------ ProjectsService
\* usersService.findByEmail: is there a user with this email
UserFound(userEmail) == (userEmail = User /\ user.exists) \/ userEmail = Other

\* the member lists a request can carry
MemberLists == {<<>>, <<"m1">>, <<"m1", "m2">>}

\* projectModel.findById
FindById(id) == IF id \in 1..Len(projects) /\ projects[id].exists THEN projects[id] ELSE NoProject

\* the checks every mutating method starts with
Access(id, userEmail) ==
  IF ~UserFound(userEmail) THEN "UserNotFound"
  ELSE IF ~FindById(id).exists THEN "ProjectNotFound"
  ELSE IF FindById(id).createdBy # userEmail THEN "Forbidden"
  ELSE "ok"

\* faulty variant of TryTeams: the error of the team call is thrown on
TryTeamsRethrow(fails) == IF fails THEN "thrown" ELSE "done"

\* try { await this.teamsService... } catch (error) { console.error(...) }
TryTeams(fails) == IF fails THEN "caught" ELSE "done"

\* teamsService.updateProjectTeamMembers
UpdateProjectTeamMembers(id, memberIds) ==
  {IF t.projectId = id THEN [t EXCEPT !.members = memberIds] ELSE t : t \in teams}

ProjectReply(op, result, project) == [op |-> op, result |-> result, project |-> project]

\* ProjectsService.create
Create(members, userEmail, fails) ==
  IF ~UserFound(userEmail)
     THEN /\ preq' = ProjectReply("create", "UserNotFound", NoProject)
          /\ UNCHANGED <<projects, teams, authVars, identities, oauth>>
     ELSE /\ Len(projects) < MaxProjects
          /\ LET id == Len(projects) + 1
                 savedProject == [exists |-> TRUE, createdBy |-> userEmail,
                                  members |-> members, teamId |-> 0]
                 team == TryTeams(fails)
                 stored == IF team = "done" THEN [savedProject EXCEPT !.teamId = id]
                                            ELSE savedProject
             IN /\ projects' = Append(projects, stored)
                /\ teams' = IF team = "done"
                               THEN teams \cup {[id |-> id, projectId |-> id,
                                                 members |-> members]}
                               ELSE teams
                /\ preq' = IF team = "thrown"
                              THEN ProjectReply("create", "Error", NoProject)
                              ELSE ProjectReply("create", "ok", stored)
          /\ UNCHANGED <<authVars, identities, oauth>>

\* ProjectsService.update with a member list in the request
Update(id, members, userEmail, fails) ==
  /\ LET a == Access(id, userEmail)
         team == TryTeams(fails)
     IN IF a # "ok"
           THEN /\ preq' = ProjectReply("update", a, NoProject)
                /\ UNCHANGED <<projects, teams>>
           ELSE /\ teams' = IF team = "done" THEN UpdateProjectTeamMembers(id, members)
                                              ELSE teams
                /\ projects' = IF team = "thrown" THEN projects
                                ELSE [projects EXCEPT ![id].members = members]
                /\ preq' = IF team = "thrown"
                              THEN ProjectReply("update", "Error", NoProject)
                              ELSE ProjectReply("update", "ok", projects'[id])
  /\ UNCHANGED <<authVars, identities, oauth>>

\* ProjectsService.delete
Delete(id, userEmail, fails) ==
  /\ LET a == Access(id, userEmail)
         team == TryTeams(fails)
     IN IF a # "ok"
           THEN /\ preq' = ProjectReply("delete", a, NoProject)
                /\ UNCHANGED <<projects, teams>>
           ELSE /\ teams' = IF team = "done" THEN {t \in teams : t.projectId # id}
                                              ELSE teams
                /\ projects' = IF team = "thrown" THEN projects
                                ELSE [projects EXCEPT ![id] = NoProject]
                /\ preq' = ProjectReply("delete", IF team = "thrown" THEN "Error" ELSE "ok",
                                        NoProject)
  /\ UNCHANGED <<authVars, identities, oauth>>

\* the member change of addMember and removeMember: save, sync, read back
SaveAndSync(op, id, memberList, fails) ==
  LET team == TryTeams(fails)
  IN /\ projects' = [projects EXCEPT ![id].members = memberList]
     /\ teams' = IF team = "done" THEN UpdateProjectTeamMembers(id, memberList)
                                   ELSE teams
     /\ preq' = IF team = "thrown" THEN ProjectReply(op, "Error", NoProject)
                                    ELSE ProjectReply(op, "ok", projects'[id])

\* ProjectsService.addMember
AddMember(id, userId, userEmail, fails) ==
  /\ LET a == Access(id, userEmail)
     IN IF a # "ok"
           THEN /\ preq' = ProjectReply("addMember", a, NoProject)
                /\ UNCHANGED <<projects, teams>>
        ELSE IF \E i \in 1..Len(projects[id].members) : projects[id].members[i] = userId
           THEN /\ preq' = ProjectReply("addMember", "ok", projects[id])
                /\ UNCHANGED <<projects, teams>>
        ELSE SaveAndSync("addMember", id, Append(projects[id].members, userId), fails)
  /\ UNCHANGED <<authVars, identities, oauth>>

\* ProjectsService.removeMember
RemoveMember(id, userId, userEmail, fails) ==
  /\ LET a == Access(id, userEmail)
         keep(m) == m # userId
     IN IF a # "ok"
           THEN /\ preq' = ProjectReply("removeMember", a, NoProject)
                /\ UNCHANGED <<projects, teams>>
           ELSE SaveAndSync("removeMember", id, SelectSeq(projects[id].members, keep), fails)
  /\ UNCHANGED <<authVars, identities, oauth>>

\* the project requests
NextProjects ==
  \/ \E m \in MemberLists : \E e \in {User, Other, Nobody} : \E f \in BOOLEAN :
        Create(m, e, f)
  \/ \E id \in 1..MaxProjects : \E m \in MemberLists : \E e \in {User, Other, Nobody} :
        \E f \in BOOLEAN : Update(id, m, e, f)
  \/ \E id \in 1..MaxProjects : \E e \in {User, Other, Nobody} : \E f \in BOOLEAN :
        Delete(id, e, f)
  \/ \E id \in 1..MaxProjects : \E u \in {"m1", "m2"} : \E e \in {User, Other, Nobody} :
        \E f \in BOOLEAN : AddMember(id, u, e, f)
  \/ \E id \in 1..MaxProjects : \E u \in {"m1", "m2"} : \E e \in {User, Other, Nobody} :
        \E f \in BOOLEAN : RemoveMember(id, u, e, f)

SpecProjects == Init /\ [][NextProjects]_vars

\* the whole system
Next ==
  \/ NextProjects
  \/ \E o \in Slots : \E profile \in Profiles : GoogleValidate(o, profile)
  \/ \E o \in Slots : GoogleAuthRedirect(o)
  \/ Tick
  \/ \E s \in Slots : StartStatus(s)
  \/ \E s \in Slots : StartLogout(s)
  \/ \E s \in Slots : ValidateBlacklist(s)
  \/ \E s \in Slots : ValidateUser(s)
  \/ \E s \in Slots : Logout(s)
  \/ \E s \in Slots : \E e \in {User, Nobody} : \E pw \in {"good", "bad"} : Login(s, e, pw)
  \/ \E s \in Slots : \E e \in {User, Nobody} : \E c \in {"good", "bad"} : Verify2FA(s, e, c)
  \/ \E s \in Slots : StartRefresh(s)
  \/ \E s \in Slots : Refresh(s)
  \/ ChangePassword
  \/ DeleteUser

Spec == Init /\ [][Next]_vars

\* Google logins, each the strategy's call and then the redirect handler's
NextOAuth ==
  \/ \E o \in Slots : \E profile \in Profiles : GoogleValidate(o, profile)
  \/ \E o \in Slots : GoogleAuthRedirect(o)

SpecOAuth == Init /\ [][NextOAuth]_vars

\* the login attempts of the Login Policy Engine: password, second factor, lockout
NextLogin ==
  \/ Tick
  \/ \E e \in {User, Nobody} : \E pw \in {"good", "bad"} : Login(1, e, pw)
  \/ \E e \in {User, Nobody} : \E c \in {"good", "bad"} : Verify2FA(1, e, c)

SpecLogin == Init /\ [][NextLogin]_vars

\* the Session Validator: one session logs in and out, status requests run
\* beside it, the credentials change under it
NextSession ==
  \/ Tick
  \/ \E pw \in {"good", "bad"} : Login(1, User, pw)
  \/ \E s \in Slots : StartStatus(s)
  \/ StartLogout(1)
  \/ \E s \in Slots : ValidateBlacklist(s)
  \/ \E s \in Slots : ValidateUser(s)
  \/ \E s \in Slots : Logout(s)
  \/ ChangePassword
  \/ DeleteUser

SpecSession == Init /\ [][NextSession]_vars

\* refresh-token rotation: concurrent refresh calls, with the validator and
\* logout of the same session
NextRefresh ==
  \/ Login(1, User, "good")
  \/ \E s \in Slots : StartRefresh(s)
  \/ \E s \in Slots : Refresh(s)
  \/ StartStatus(1)
  \/ StartLogout(1)
  \/ ValidateBlacklist(1)
  \/ ValidateUser(1)
  \/ Logout(1)

SpecRefresh == Init /\ [][NextRefresh]_vars
\* =============================================================== claims
\* a validate call in slot s leaves the blacklist check, the user checks, or
\* ends (rejected, or passed on to the guarded handler)
LeavesBlacklistCheck(s) == slot[s].pc = "blacklist" /\ slot'[s].pc # "blacklist"
LeavesUserChecks(s) == slot[s].pc = "user" /\ slot'[s].pc # "user"
ValidateEnds(s) ==
  slot[s].pc \in {"blacklist", "user"} /\ slot'[s].pc \notin {"blacklist", "user"}
Rejected(s, reason) == slot'[s].pc = "done" /\ slot'[s].resp = reason
Accepted(s) ==
  \/ slot'[s].pc = "logout"
  \/ slot'[s].pc = "done" /\ slot'[s].resp = "Principal"

\* C1: a token that is in the Revocation Registry when validate looks it up
\* never validates: the call is rejected as revoked, however the verified
\* token was carried.
C1_RevokedNeverValidates ==
  [][\A s \in Slots :
       LeavesBlacklistCheck(s) /\ Jwt(s) \in blacklist => Rejected(s, "TokenRevoked")]_vars

\* C2: once a logout authenticated with token t has returned, every validate
\* call on t that started afterwards is rejected as revoked.
C2_LogoutThenRevoked ==
  [][\A s \in Slots :
       ValidateEnds(s) /\ slot[s].afterLogout => Rejected(s, "TokenRevoked")]_vars

\* the token of the call was issued before / after the last password change
IssuedBeforeChange(s) ==
  user.lastPasswordChange # Null
  /\ pairs[AccessIndex(Jwt(s))].at < user.lastPasswordChange
IssuedAfterChange(s) ==
  user.lastPasswordChange # Null
  /\ pairs[AccessIndex(Jwt(s))].at > user.lastPasswordChange

\* C3: after a password change validate rejects every token issued before
\* the change as stale, and accepts a token issued after it (the account
\* existing and not locked, the token not revoked).
C3_PasswordChangeInvalidates ==
  [][\A s \in Slots :
       LeavesUserChecks(s) /\ user.exists =>
          /\ IssuedBeforeChange(s) => Rejected(s, "StaleCredentials")
          /\ IssuedAfterChange(s) /\ ~Locked => Accepted(s)]_vars
\* the reason the Session Validator's contract gives for the user checks, in
\* its order: identity, stale credentials, lockout
ContractReason(s) ==
  IF ~user.exists THEN "IdentityNotFound"
  ELSE IF IssuedBeforeChange(s) THEN "StaleCredentials"
  ELSE IF Locked THEN "AccountLocked"
  ELSE "Principal"

\* C8: validate returns a principal exactly when no check fails, and
\* otherwise rejects with the reason of the first failing check in the order
\* revoked, identity not found, stale credentials, account locked.
C8_FirstFailingReason ==
  [][\A s \in Slots :
       /\ LeavesBlacklistCheck(s) =>
            IF Jwt(s) \in blacklist THEN Rejected(s, "TokenRevoked")
            ELSE slot'[s].pc = "user"
       /\ LeavesUserChecks(s) =>
            IF ContractReason(s) = "Principal" THEN Accepted(s)
            ELSE Rejected(s, ContractReason(s))]_vars

\* C9: a logout request that carries the same tokens as a logout that has
\* already returned succeeds as well and leaves the Revocation Registry as it
\* was.
C9_RepeatedLogoutSucceeds ==
  [][\A s \in Slots :
       (slot[s].op = "logout" /\ slot[s].repeated /\ slot[s].pc # "done"
        /\ slot'[s].pc = "done")
       => slot'[s].resp = "ok" /\ blacklist' = blacklist]_vars
\* ---------------------------------------------------- refresh rotation
RefreshDone(s) == slot[s].op = "refresh" /\ slot[s].pc = "done"
Family(str) == pairs[AccessIndex(str)].fam

\* C4: a refresh token that has been rotated never refreshes again: its
\* second use fails with TokenReplayDetected, and from then on validate
\* rejects every access token of the same original login.
C4_RotatedTokenReplay ==
  [][\A s \in Slots :
       /\ (slot[s].pc = "rotate" /\ slot'[s].pc = "done"
           /\ RefreshIndex(slot[s].cookieRefresh) # 0
           /\ pairs[RefreshIndex(slot[s].cookieRefresh)].rotated)
          => slot'[s].resp = "TokenReplayDetected"
       /\ (LeavesBlacklistCheck(s) /\ Family(Jwt(s)) \in revokedFamilies)
          => Rejected(s, "TokenRevoked")]_vars

\* C10: of the refresh calls that present the same refresh token at most one
\* succeeds; when one has succeeded every other one fails with
\* TokenReplayDetected and the token's family is revoked; when none has, the
\* token was not usable (rotated or revoked before).
C10_OneRotationWins ==
  \A s \in Slots : \A t \in Slots \ {s} :
     (RefreshDone(s) /\ RefreshDone(t)
      /\ slot[s].cookieRefresh = slot[t].cookieRefresh
      /\ RefreshIndex(slot[s].cookieRefresh) # 0)
     => LET p == RefreshIndex(slot[s].cookieRefresh)
        IN /\ ~(slot[s].resp = "ok" /\ slot[t].resp = "ok")
           /\ slot[s].resp = "ok" =>
                 /\ slot[t].resp = "TokenReplayDetected"
                 /\ pairs[p].fam \in revokedFamilies
                 /\ FamilyTokens(pairs[p].fam) \subseteq blacklist
           /\ (slot[s].resp # "ok" /\ slot[t].resp # "ok") =>
                 \/ pairs[p].rotated
                 \/ slot[s].cookieRefresh \in blacklist

C10_Witness ==
  \E s \in Slots : \E t \in Slots \ {s} :
     /\ RefreshDone(s) /\ RefreshDone(t)
     /\ slot[s].cookieRefresh = slot[t].cookieRefresh
     /\ slot[s].resp = "ok" /\ slot[t].resp = "TokenReplayDetected"
     /\ pairs[RefreshIndex(slot[s].cookieRefresh)].fam \in revokedFamilies
\* ----------------------------------------------------- login attempts
\* C5: after LockoutThreshold consecutive failed attempts every login
\* attempt on the identity, the correct password included, fails with
\* AccountLocked until the lockout window has elapsed.
C5_LockedAfterThreshold ==
  [][\A s \in Slots : \A pw \in {"good", "bad"} :
       (Login(s, User, pw) /\ user.exists
        /\ hist.streak >= LockoutThreshold
        /\ now < hist.lockedAt + LockoutWindowMs)
       => slot'[s].resp = "AccountLocked" /\ pairs' = pairs /\ challenges' = challenges]_vars

C5_Witness ==
  /\ hist.streak >= LockoutThreshold
  /\ now < hist.lockedAt + LockoutWindowMs
  /\ now > hist.lockedAt
  /\ \E s \in Slots : slot[s].op = "login" /\ slot[s].resp = "AccountLocked"

\* C6: a login with the matching password on an identity with 2FA enabled
\* hands out a challenge token only: no token pair is issued and no cookie is
\* set; a login hands out access and refresh tokens only when 2FA is off.
C6_ChallengeOnly ==
  [][\A s \in Slots :
       /\ (Login(s, User, "good") /\ user.exists /\ user.twoFA /\ ~Locked)
          => /\ slot'[s].resp = "requires2FA"
             /\ Len(challenges') = Len(challenges) + 1
             /\ slot'[s].temp = Len(challenges')
             /\ slot'[s].setAccess = None /\ slot'[s].setRefresh = None
             /\ pairs' = pairs
       /\ \A e \in {User, Nobody} : \A pw \in {"good", "bad"} :
            (Login(s, e, pw)
             /\ (pairs' # pairs \/ slot'[s].setAccess # None \/ slot'[s].setRefresh # None))
            => /\ ~user.twoFA
               /\ slot'[s].setAccess = AccessTok(Len(pairs'))
               /\ slot'[s].setRefresh = RefreshTok(Len(pairs'))
               /\ slot'[s].temp = 0]_vars

C6_Witness ==
  /\ user.twoFA
  /\ Len(challenges) = 1
  /\ pairs = <<>>
  /\ \E s \in Slots : /\ slot[s].op = "login" /\ slot[s].resp = "requires2FA"
                      /\ slot[s].temp = 1 /\ slot[s].setAccess = None

\* the token pairs handed out by verify2FA so far
Pairs2FA(ps) == Cardinality({p \in 1..Len(ps) : ps[p].via = "2fa"})

\* C7: verify2FA issues a token pair only from the 2FA_REQUIRED state: a
\* challenge token of the identity exists and is unexpired, and the pairs
\* issued by verify2FA never outnumber the challenge tokens created.
C7_Verify2FANeedsChallenge ==
  [][\A s \in Slots : \A c \in {"good", "bad"} :
       (Verify2FA(s, User, c) /\ pairs' # pairs)
       => /\ \E i \in 1..Len(challenges) :
                challenges[i].sub = User /\ now < challenges[i].exp
          /\ Pairs2FA(pairs') <= Len(challenges)]_vars

\* C11: validate, whether it succeeds or rejects, changes no state: the user
\* record (with its failed-attempt counter, lockout-until and
\* last-password-change), the token pairs and challenges, and the Revocation
\* Registry are the same after each of its steps as before; and when it
\* succeeds its only result is the principal {sub, email, provider, iat}
\* that the verified token carries.
C11_ValidateChangesNothing ==
  [][\A s \in Slots :
       (ValidateBlacklist(s) \/ ValidateUser(s)) =>
          /\ UNCHANGED <<user, pairs, challenges, blacklist, revokedFamilies>>
          /\ \A o \in Slots \ {s} : slot'[o] = slot[o]
          /\ (ValidateEnds(s) /\ Accepted(s)) =>
                LET p == AccessIndex(Jwt(s))
                IN slot'[s].principal =
                     [sub |-> pairs[p].sub, email |-> pairs[p].sub,
                      provider |-> "local", iat |-> pairs[p].at \div MsPerSec]]_vars

\* a status request was accepted after the clock left the token's second,
\* and one was rejected as revoked, with the Revocation Registry non-empty
C11_Witness ==
  /\ \E s \in Slots : /\ slot[s].op = "status" /\ slot[s].pc = "done"
                       /\ slot[s].resp = "Principal"
                       /\ slot[s].principal.iat # NowSec
  /\ \E s \in Slots : /\ slot[s].op = "status" /\ slot[s].pc = "done"
                       /\ slot[s].resp = "TokenRevoked"
  /\ blacklist # {}

\* C12: after any sequence of validateOAuthLogin calls there is at most one
\* identity per email and at most one per (provider, subject); and the second
\* call of a Google login, made by the redirect handler with the profile the
\* strategy passed on, finds the identity the first call came to (as long as
\* that identity still carries the profile's (provider, subject)) and creates
\* no second one.
C12_OneIdentityPerKey ==
  /\ [](\A i, j \in 1..Len(identities) :
          i # j => /\ identities[i].email # identities[j].email
                   /\ ~(/\ identities[i].provider # ""
                         /\ identities[i].provider = identities[j].provider
                         /\ identities[i].subject = identities[j].subject))
  /\ [][\A o \in Slots :
          (/\ GoogleAuthRedirect(o)
           /\ FindByOAuth(identities, oauth[o].user.provider, oauth[o].user.id)
                 = oauth[o].first) =>
             /\ identities' = identities
             /\ oauth'[o].sub = oauth[o].first]_vars

\* a Google login with the local identity's email in another spelling has
\* linked to it, a login with a new email has created an identity, and both
\* have made their second call
C12_Witness ==
  /\ Len(identities) = 2
  /\ identities[1].provider = "google"
  /\ \E o \in Slots : oauth[o].pc = "done" /\ oauth[o].user.email = "U" /\ oauth[o].sub = 1
  /\ \E o \in Slots : oauth[o].pc = "done" /\ oauth[o].user.email = "v" /\ oauth[o].sub = 2

\* C13: for every transport of an access token that the verifying extractor
\* accepts, the string validate looks up in the Revocation Registry is the
\* token whose signature was verified, and the lookup is not skipped; so a
\* blacklisted token is rejected whichever transport and header spelling
\* carries it.
C13_LookupIsVerifiedToken ==
  [][\A s \in Slots :
       ValidateBlacklist(s) =>
          /\ ValidateToken(slot[s].cookieAccess, slot[s].auth) # None
          /\ ValidateToken(slot[s].cookieAccess, slot[s].auth) = Jwt(s)
          /\ (Jwt(s) \in blacklist => Rejected(s, "TokenRevoked"))]_vars

C15_TeamFailureNotFatal ==
  [][/\ \A m \in MemberLists : \A e \in {User, Other} :
          (Create(m, e, TRUE) /\ UserFound(e)) =>
             LET project == [exists |-> TRUE, createdBy |-> e, members |-> m, teamId |-> 0]
             IN /\ projects' = Append(projects, project)
                /\ preq'.result = "ok" /\ preq'.project = project
     /\ \A id \in 1..MaxProjects : \A e \in {User, Other} :
          /\ (Delete(id, e, TRUE) /\ Access(id, e) = "ok") =>
                ~projects'[id].exists /\ preq'.result = "ok"
          /\ \A m \in MemberLists :
                (Update(id, m, e, TRUE) /\ Access(id, e) = "ok") =>
                   /\ projects'[id].exists /\ projects'[id].members = m
                   /\ preq'.result = "ok" /\ preq'.project = projects'[id]
          /\ \A u \in {"m1", "m2"} :
                /\ (AddMember(id, u, e, TRUE) /\ Access(id, e) = "ok") =>
                      /\ projects'[id].members \in
                            {projects[id].members, Append(projects[id].members, u)}
                      /\ \E i \in 1..Len(projects'[id].members) :
                            projects'[id].members[i] = u
                      /\ preq'.result = "ok" /\ preq'.project = projects'[id]
                /\ (RemoveMember(id, u, e, TRUE) /\ Access(id, e) = "ok") =>
                      /\ \A i \in 1..Len(projects'[id].members) :
                            projects'[id].members[i] # u
                      /\ Len(projects'[id].members) <= Len(projects[id].members)
                      /\ preq'.result = "ok" /\ preq'.project = projects'[id]]_vars

\* a member was removed from a project that has no team because its team
\* creation failed, and the member list was persisted and returned
C15_Witness ==
  /\ Len(projects) = 1 /\ projects[1].exists
  /\ projects[1].teamId = 0 /\ teams = {}
  /\ preq.op = "removeMember" /\ preq.result = "ok"
  /\ preq.project = projects[1]
  /\ projects[1].members = <<"m2">>
====
